---- MODULE Spec2Model ----
(***************************************************************************)
(* Model of the Hugo knowledge-base ingestion pipeline                     *)
(* (scripts/hugo-kb-ingestion): chunker.py, embedder.py, uploader.py and   *)
(* the document loop of ingest_pdfs.py.                                    *)
(*                                                                         *)
(* Text is kept in run-length form: a text is a sequence of runs           *)
(* [ch |-> c, n |-> k] (k >= 1 copies of the character c, adjacent runs    *)
(* having different characters), so that the lengths the code compares     *)
(* against (50, 1000, 32000) are the real ones.  The characters are "NUL"  *)
(* (\x00), "SP" (space), "NL" (newline) and ordinary characters.           *)
(*                                                                         *)
(* A vector of floats is kept as [dim, zero, of]: its length, whether it   *)
(* is [0.0] * dim, and the text the embedding service computed it from.    *)
(***************************************************************************)
EXTENDS Integers, Sequences, FiniteSets, TLC

VARIABLES
    \* embedder.py
    client,          \* module global `client`: "None" or "OpenAI"
    api_key,         \* whether OPENAI_API_KEY is set in the environment
    service,         \* what get_client() talks to: "live" (the OpenAI service) or
                     \* "mock" (the deterministic stand-in the tests patch in)
    created,         \* number of OpenAI(...) constructions so far
    ge_pc,           \* generate_embedding: "idle", "loop", "returned", "raised"
    ge_arg,          \* generate_embedding: the text argument as passed
    ge_text,         \* generate_embedding: local `text` (after truncation)
    ge_max_retries,  \* generate_embedding: max_retries
    ge_attempt,      \* generate_embedding: loop variable `attempt`
    ge_result,       \* generate_embedding: the value returned
    ge_error,        \* generate_embedding: the exception raised
    ge_resps,        \* answers of the service to this call's requests, in order
    ge_sent,         \* the inputs this call submitted to the service, in order
    ge_sleeps,       \* the time.sleep(wait_time) arguments of this call, in order
    chunks,          \* batch_embed / upload_chunks: the chunk list
    batch_size,      \* batch_embed: batch_size
    be_pc,           \* batch_embed: "idle", "window", "fallback", "embedding", "done", "raised"
    be_i,            \* batch_embed: loop variable i (0-based window start)
    be_j,            \* batch_embed: fallback loop variable j
    be_windows,      \* window calls so far: <<i, answer>>
    be_single,       \* positions generate_embedding was called for, with its outcome
    be_input,        \* the chunk list as it was when batch_embed was called
    be_writes,       \* per position, the number of assignments to chunks[p]["embedding"]
                     \* in this batch_embed call
    be_first,        \* the embeddings an earlier batch_embed call left on this list
    \* uploader.py
    up_pc,           \* upload_chunks: "idle", "batch", "retry", "returned", "raised"
    up_i,            \* upload_chunks: loop variable i
    up_r,            \* upload_chunks: position in `records` of the retry loop
    records,         \* upload_chunks: the records of the current batch
    success_count,
    error_count,
    up_error,        \* the exception upload_chunks raised, with the count it carries
    inserts,         \* log of insert calls: [kind, at, n, ok]
    stored,          \* what the store accepted, in order
    \* chunker.py and the document loop of ingest_pdfs.py
    pdf_files,       \* main: the documents of the run
    doc,             \* main: position of the document being processed (1-based)
    all_chunks,      \* main: all_chunks
    outputs,         \* what chunk_pdf returned for each document processed so far
    cp_pc,           \* chunk_pdf: "idle", "pages", "returned", "raised"
    cp_filename,
    cp_metadata,
    text_by_page,
    cp_mode,         \* the splitter chosen: "workbook" or "book"
    page_num,        \* chunk_pdf: 1-based position in text_by_page of the next page to process
    cp_chunks,       \* chunk_pdf: local `chunks`
    chunk_index,     \* chunk_pdf: local `chunk_index`
    cp_dropped,      \* number of split pieces this chunk_pdf call skipped as too small
    nz_pc,           \* clean_chunk_text applied on its own: "raw", "once", "twice"
    nz_text,         \* the text given to clean_chunk_text
    nz_once,         \* clean_chunk_text(nz_text)
    nz_twice         \* clean_chunk_text(nz_once)

embedVars == <<client, api_key, service, created, ge_pc, ge_arg, ge_text, ge_max_retries,
               ge_attempt, ge_result, ge_error, ge_resps, ge_sent, ge_sleeps>>
geVars == <<ge_pc, ge_arg, ge_text, ge_max_retries, ge_attempt, ge_result,
            ge_error, ge_resps, ge_sent, ge_sleeps>>
batchVars == <<chunks, batch_size, be_pc, be_i, be_j, be_windows, be_single,
               be_input, be_writes, be_first>>
uploadVars == <<up_pc, up_i, up_r, records, success_count, error_count, up_error,
                inserts, stored>>
cpVars == <<pdf_files, doc, all_chunks, outputs, cp_pc, cp_filename, cp_metadata,
            text_by_page, cp_mode, page_num, cp_chunks, chunk_index, cp_dropped>>
nzVars == <<nz_pc, nz_text, nz_once, nz_twice>>
chunkVars == <<cpVars, nzVars>>
vars == <<embedVars, batchVars, uploadVars, chunkVars>>

----------------------------------------------------------------------------
(* Bounds of the model *)

\* largest max_retries passed to generate_embedding
MaxRetries == 3
\* longest chunk list given to batch_embed
MaxChunks == 3
\* largest batch_size given to batch_embed
MaxBatchSize == 2

----------------------------------------------------------------------------
(* Text in run-length form *)

Run(c, k) == [ch |-> c, n |-> k]

RECURSIVE StrLen(_)
\* len(text)
StrLen(text) == IF text = <<>> THEN 0 ELSE Head(text).n + StrLen(Tail(text))

\* the characters str.strip() removes
IsSpace(c) == c \in {"SP", "NL"}

RECURSIVE LStrip(_)
LStrip(text) ==
    IF text = <<>> THEN <<>>
    ELSE IF IsSpace(Head(text).ch) THEN LStrip(Tail(text))
    ELSE text

RECURSIVE RStrip(_)
RStrip(text) ==
    IF text = <<>> THEN <<>>
    ELSE IF IsSpace(text[Len(text)].ch) THEN RStrip(SubSeq(text, 1, Len(text) - 1))
    ELSE text

\* text.strip()
Strip(text) == RStrip(LStrip(text))

RECURSIVE Prefix(_, _)
\* text[:k]
Prefix(text, k) ==
    IF k <= 0 \/ text = <<>> THEN <<>>
    ELSE IF Head(text).n <= k
         THEN <<Head(text)>> \o Prefix(Tail(text), k - Head(text).n)
         ELSE <<Run(Head(text).ch, k)>>

----------------------------------------------------------------------------
(* embedder.py *)

EmbeddingDim == 1536
MaxTextChars == 32000

\* [0.0] * 1536
ZeroVector == [dim |-> EmbeddingDim, zero |-> TRUE, of |-> <<>>]

\* response.data[k].embedding of the embedding service for one submitted text
ServiceVector(text) == [dim |-> EmbeddingDim, zero |-> FALSE, of |-> text]

\* What one embeddings.create call can answer: the vectors, an exception whose
\* message holds "rate limit" or "429", or any other exception.
ServiceAnswers == {"ok", "rate_limit", "error"}

\* what a request can be answered with: the live service may fail, the mock
\* (Mock(data=[Mock(embedding=...)])) always returns its vectors
Answers == IF service = "mock" THEN {"ok"} ELSE ServiceAnswers

\* "rate limit" in error_msg.lower() or "429" in error_msg
is_rate_limit(e) == e = "rate_limit"

\* variant: `if not text:` alone, the strip() test forgotten
IsBlankText_NoStrip(text) == text = <<>>

\* not text or not text.strip()
IsBlankText(text) == text = <<>> \/ Strip(text) = <<>>

\* variant: no truncation
Truncated_Never(text) == text

\* if len(text) > 32000: text = text[:32000]
Truncated(text) == IF StrLen(text) > MaxTextChars THEN Prefix(text, MaxTextChars) ELSE text

RECURSIVE Pow2(_)
Pow2(k) == IF k <= 0 THEN 1 ELSE 2 * Pow2(k - 1)

\* variant: the backoff counted from 1, 2 ** (attempt + 1)
wait_time_FromOne(attempt) == Pow2(attempt + 1)

\* wait_time = 2 ** attempt
wait_time(attempt) == Pow2(attempt)

\* variant: `if attempt < max_retries:`, so that the last attempt sleeps and
\* continues too
OnException_OffByOne(e, attempt, max_retries) ==
    IF is_rate_limit(e) /\ attempt < max_retries THEN "sleep"
    ELSE IF attempt = max_retries - 1 THEN "raise"
    ELSE "next"

\* The except block of generate_embedding for exception e in iteration `attempt`:
\* "sleep" (sleep, then continue), "raise" (re-raise), or "next" (the block ends
\* and the for loop goes on to its next iteration).
OnException(e, attempt, max_retries) ==
    IF is_rate_limit(e) /\ attempt < max_retries - 1 THEN "sleep"
    ELSE IF attempt = max_retries - 1 THEN "raise"
    ELSE "next"

\* get_client() raises ValueError exactly when no client exists and no key is set
get_client_fails == client = "None" /\ ~api_key

\* get_client(): creates the client on first use
get_client ==
    /\ ~get_client_fails
    /\ client' = "OpenAI"
    /\ created' = IF client = "None" THEN created + 1 ELSE created
    /\ UNCHANGED <<api_key, service>>

\* generate_embedding(text, max_retries) up to the for loop
generate_embedding(text, max_retries) ==
    /\ ge_arg' = text
    /\ ge_max_retries' = max_retries
    /\ ge_attempt' = 0
    /\ ge_resps' = <<>>
    /\ ge_sent' = <<>>
    /\ ge_sleeps' = <<>>
    /\ ge_error' = "none"
    /\ IF IsBlankText(text)
       THEN /\ ge_pc' = "returned"
            /\ ge_result' = ZeroVector
            /\ ge_text' = text
       ELSE /\ ge_pc' = "loop"
            /\ ge_result' = ZeroVector
            /\ ge_text' = Truncated(text)
    /\ UNCHANGED <<client, api_key, service, created>>

\* the effect of exception e raised in the try block of iteration ge_attempt
ge_except(e) ==
    LET what == OnException(e, ge_attempt, ge_max_retries) IN
    /\ ge_sleeps' = IF what = "sleep" THEN Append(ge_sleeps, wait_time(ge_attempt))
                    ELSE ge_sleeps
    /\ IF what = "raise"
       THEN /\ ge_pc' = "raised"
            /\ ge_error' = e
            /\ UNCHANGED ge_attempt
       ELSE /\ ge_attempt' = ge_attempt + 1
            /\ UNCHANGED <<ge_pc, ge_error>>
    /\ UNCHANGED ge_result

\* one iteration of `for attempt in range(max_retries)` in which get_client raises
GE_NoClient ==
    /\ ge_pc = "loop"
    /\ ge_attempt < ge_max_retries
    /\ get_client_fails
    /\ ge_except("ValueError")
    /\ UNCHANGED <<client, api_key, service, created, ge_arg, ge_text, ge_max_retries,
                   ge_resps, ge_sent>>
    /\ UNCHANGED <<batchVars, uploadVars, chunkVars>>

\* one iteration of `for attempt in range(max_retries)` that reaches the service
GE_Call ==
    /\ ge_pc = "loop"
    /\ ge_attempt < ge_max_retries
    /\ get_client
    /\ \E answer \in Answers :
        /\ ge_resps' = Append(ge_resps, answer)
        /\ ge_sent' = Append(ge_sent, ge_text)
        /\ IF answer = "ok"
           THEN /\ ge_pc' = "returned"
                /\ ge_result' = ServiceVector(ge_text)
                /\ UNCHANGED <<ge_attempt, ge_error, ge_sleeps>>
           ELSE ge_except(answer)
    /\ UNCHANGED <<ge_arg, ge_text, ge_max_retries>>
    /\ UNCHANGED <<batchVars, uploadVars, chunkVars>>

\* the for loop ends without return or raise: return [0.0] * 1536
GE_Exhausted ==
    /\ ge_pc = "loop"
    /\ ge_attempt >= ge_max_retries
    /\ ge_pc' = "returned"
    /\ ge_result' = ZeroVector
    /\ UNCHANGED <<client, api_key, service, created, ge_arg, ge_text, ge_max_retries,
                   ge_attempt, ge_error, ge_resps, ge_sent, ge_sleeps>>
    /\ UNCHANGED <<batchVars, uploadVars, chunkVars>>

\* generate_embedding is not running: its locals do not exist
ge_idle(pc, arg, text, m, attempt, result, error, resps, sent, sleeps) ==
    /\ pc = "idle"
    /\ arg = <<>>
    /\ text = <<>>
    /\ m = 0
    /\ attempt = 0
    /\ result = ZeroVector
    /\ error = "none"
    /\ resps = <<>>
    /\ sent = <<>>
    /\ sleeps = <<>>

\* the caller has taken the outcome of generate_embedding: its frame is gone
ge_frame_dropped ==
    ge_idle(ge_pc', ge_arg', ge_text', ge_max_retries', ge_attempt', ge_result',
            ge_error', ge_resps', ge_sent', ge_sleeps')

\* variant: one more attempt by default
DefaultMaxRetries_Four == 3 + 1

\* max_retries: int = 3
DefaultMaxRetries == 3

\* no batch_embed call has returned on the list yet
NoRun == [ran |-> FALSE]

Min(a, b) == IF a <= b THEN a ELSE b

\* variant: the chunk is replaced by a new dict of content and embedding
SetEmbedding_NewDict(chunk, v) == [content |-> chunk.content, embedding |-> v]

\* chunk["embedding"] = v
SetEmbedding(chunk, v) == ("embedding" :> v) @@ chunk

\* "embedding" in chunk
HasEmbedding(chunk) == "embedding" \in DOMAIN chunk

\* variant: the slice one short, chunks[i:i + batch_size - 1]
Window_Short(i, size, total) == (i + 1)..Min(i + size - 1, total)

\* the 1-based positions of chunks[i:i + batch_size]
Window(i, size, total) == (i + 1)..Min(i + size, total)

\* variant: the handlers catch rate-limit errors only
Caught_RateLimitOnly(e) == e = "rate_limit"

\* `except Exception` of the window call and of the individual call: whether
\* exception e is caught
Caught(e) == TRUE

\* variant: the fallback loop stores the zero vector whatever the individual
\* call returned
FallbackEmbedding_AlwaysZero(pc, result) == ZeroVector

\* the value the fallback loop stores for a chunk, given how its
\* generate_embedding call ended
FallbackEmbedding(pc, result) == IF pc = "returned" THEN result ELSE ZeroVector

\* batch_texts = [chunk["content"] for chunk in batch], batch = chunks[i:i + batch_size]
batch_texts(cs, i, size) ==
    [j \in 1..Cardinality(Window(i, size, Len(cs))) |-> cs[i + j].content]

\* response.data of embeddings.create(input=texts): one embedding per input text,
\* in the order of the inputs
response_data(texts) == [j \in 1..Len(texts) |-> ServiceVector(texts[j])]

\* variant: chunks[j] instead of chunks[i + j]
Target_NoOffset(i, j) == j + 1

\* the 1-based position of chunks[i + j], i and j being the 0-based loop variables
Target(i, j) == i + j + 1

\* the positions `for j, embedding_data in enumerate(data)` assigns to
Targets(i, data) == { Target(i, j) : j \in 0..(Len(data) - 1) }

\* for j, embedding_data in enumerate(response.data):
\*     chunks[i + j]["embedding"] = embedding_data.embedding
AssignWindow(cs, i, data) ==
    [p \in 1..Len(cs) |->
        IF p \in Targets(i, data)
        THEN SetEmbedding(cs[p],
                 data[(CHOOSE j \in 0..(Len(data) - 1) : Target(i, j) = p) + 1])
        ELSE cs[p]]

\* be_writes after the assignments to the positions of set ps
Counted(writes, ps) ==
    [p \in 1..Len(writes) |-> IF p \in ps THEN writes[p] + 1 ELSE writes[p]]

\* batch_embed(chunks, batch_size) up to the for loop
batch_embed(cs, size) ==
    /\ chunks' = cs
    /\ batch_size' = size
    /\ be_pc' = "window"
    /\ be_i' = 0
    /\ be_j' = 0
    /\ be_windows' = <<>>
    /\ be_single' = <<>>
    /\ be_input' = cs
    /\ be_writes' = [p \in 1..Len(cs) |-> 0]
    /\ UNCHANGED <<embedVars, uploadVars, chunkVars>>

\* the window call raised e: the except block starts the fallback loop
be_window_failed(e) ==
    /\ be_windows' = Append(be_windows, <<be_i, e>>)
    /\ be_j' = 0
    /\ be_pc' = IF Caught(e) THEN "fallback" ELSE "raised"
    /\ UNCHANGED <<chunks, batch_size, be_i, be_single, be_input, be_writes, be_first>>

\* one iteration of `for i in range(0, total, batch_size)` in which get_client raises
BE_WindowNoClient ==
    /\ be_pc = "window"
    /\ be_i < Len(chunks)
    /\ get_client_fails
    /\ be_window_failed("ValueError")
    /\ UNCHANGED <<embedVars, uploadVars, chunkVars>>

\* one iteration of `for i in range(0, total, batch_size)` whose batch call
\* reaches the service
BE_Window ==
    /\ be_pc = "window"
    /\ be_i < Len(chunks)
    /\ get_client
    /\ \E answer \in Answers :
        IF answer = "ok"
        THEN LET data == response_data(batch_texts(chunks, be_i, batch_size))
             IN  /\ chunks' = AssignWindow(chunks, be_i, data)
                 /\ be_writes' = Counted(be_writes, Targets(be_i, data))
                 /\ be_windows' = Append(be_windows, <<be_i, answer>>)
                 /\ be_i' = be_i + batch_size
                 /\ UNCHANGED <<batch_size, be_pc, be_j, be_single, be_input, be_first>>
        ELSE be_window_failed(answer)
    /\ UNCHANGED <<geVars, uploadVars, chunkVars>>

\* fallback loop: embedding = generate_embedding(chunk["content"])
BE_Fallback ==
    /\ be_pc = "fallback"
    /\ be_i + be_j < Min(be_i + batch_size, Len(chunks))
    /\ generate_embedding(chunks[be_i + be_j + 1].content, DefaultMaxRetries)
    /\ be_pc' = "embedding"
    /\ UNCHANGED <<chunks, batch_size, be_i, be_j, be_windows, be_single,
                   be_input, be_writes, be_first>>
    /\ UNCHANGED <<uploadVars, chunkVars>>

\* fallback loop: the individual call returned or raised; store the embedding,
\* go on with the next chunk of the batch or, after the last, the next window
BE_FallbackStore ==
    /\ be_pc = "embedding"
    /\ ge_pc \in {"returned", "raised"}
    /\ be_single' = Append(be_single, <<be_i + be_j + 1, ge_pc>>)
    /\ ge_frame_dropped
    /\ IF ge_pc = "raised" /\ ~Caught(ge_error)
       THEN /\ be_pc' = "raised"
            /\ UNCHANGED <<chunks, be_i, be_j, be_writes>>
       ELSE /\ chunks' = [chunks EXCEPT ![be_i + be_j + 1] =
                              SetEmbedding(@, FallbackEmbedding(ge_pc, ge_result))]
            /\ be_writes' = Counted(be_writes, {be_i + be_j + 1})
            /\ IF be_i + be_j + 1 < Min(be_i + batch_size, Len(chunks))
               THEN /\ be_j' = be_j + 1
                    /\ be_pc' = "fallback"
                    /\ UNCHANGED be_i
               ELSE /\ be_j' = 0
                    /\ be_i' = be_i + batch_size
                    /\ be_pc' = "window"
    /\ UNCHANGED <<client, api_key, service, created>>
    /\ UNCHANGED <<batch_size, be_windows, be_input, be_first, uploadVars, chunkVars>>

\* the for loop is over: return chunks
BE_Return ==
    /\ be_pc = "window"
    /\ be_i >= Len(chunks)
    /\ be_pc' = "done"
    /\ UNCHANGED <<chunks, batch_size, be_i, be_j, be_windows, be_single,
                   be_input, be_writes, be_first>>
    /\ UNCHANGED <<embedVars, uploadVars, chunkVars>>

----------------------------------------------------------------------------
(* uploader.py *)

\* batch_size = 100, scaled down so that a run of a few records spans several
\* batches, the last one partial
UploadBatchSize == 2
\* longest chunk list given to upload_chunks
MaxRecords == 4

\* format_embedding_for_pgvector: str(embedding), the list's text form
format_embedding_for_pgvector(embedding) == [pgvector |-> embedding]

\* the record upload_chunks builds from a chunk
Record(chunk) ==
    [source_pdf |-> chunk.source_pdf,
     chunk_index |-> chunk.chunk_index,
     content |-> chunk.content,
     embedding |-> format_embedding_for_pgvector(chunk.embedding),
     metadata |-> chunk.metadata]

\* variant: the formatted embedding is written back into the chunk
AfterRecords_Formatted(cs, i) ==
    [p \in 1..Len(cs) |->
        IF p \in (i + 1)..Min(i + UploadBatchSize, Len(cs))
        THEN SetEmbedding(cs[p], format_embedding_for_pgvector(cs[p].embedding))
        ELSE cs[p]]

\* the chunk list after the records of chunks[i:i + batch_size] are built: the
\* loop reads chunk["..."] into new dicts and assigns to no chunk
AfterRecords(cs, i) == cs

\* records of batch = chunks[i:i + batch_size]
BatchRecords(cs, i) ==
    [k \in 1..(Min(i + UploadBatchSize, Len(cs)) - i) |-> Record(cs[i + k])]

NoError == [type |-> "none"]

\* raise Exception(f"{error_count} chunks failed to upload")
AggregateError(count) == [type |-> "Exception", count |-> count]

\* error_count after a bulk insert of n records failed
AfterBulkFailure(count, n) == count + n

\* variant: a successful individual insert is not counted as a success
AfterRetrySuccess_NoIncrement(ok_count, bad_count) == <<ok_count, bad_count - 1>>

\* variant: `error_count -= 1` forgotten
AfterRetrySuccess_NoDecrement(ok_count, bad_count) == <<ok_count + 1, bad_count>>

\* <<success_count, error_count>> after an individual insert succeeded
AfterRetrySuccess(ok_count, bad_count) == <<ok_count + 1, bad_count - 1>>

\* variant: the retry loop stops at the first failed individual insert
RetryLoopOver_StopOnFailure(r, n, ok) == r >= n \/ ~ok

\* whether `for record in records` is over after the insert of the r-th of n
\* records succeeded or failed: the except block only prints
RetryLoopOver(r, n, ok) == r >= n

\* variant: the batch loop gives up once a record has failed for good
MoreBatches_StopOnError(i, total, errors) == i < total /\ errors = 0

\* whether `for i in range(0, total, batch_size)` has another iteration: the
\* failures counted so far play no part
MoreBatches(i, total, errors) == i < total

\* upload_chunks(chunks, supabase_url, supabase_key) up to the for loop;
\* credentials: whether both the URL and the key are given or in the environment
upload_chunks(cs, credentials) ==
    /\ up_pc = "idle"
    /\ chunks' = cs
    /\ up_i' = 0
    /\ up_r' = 0
    /\ records' = <<>>
    /\ success_count' = 0
    /\ error_count' = 0
    /\ inserts' = <<>>
    /\ stored' = <<>>
    /\ IF credentials
       THEN up_pc' = "batch" /\ up_error' = NoError
       ELSE up_pc' = "raised" /\ up_error' = [type |-> "ValueError"]
    /\ UNCHANGED <<embedVars, batch_size, be_pc, be_i, be_j, be_windows, be_single,
                   be_input, be_writes, be_first,
                   chunkVars>>

\* one iteration of `for i in range(0, total, batch_size)`: build the records and
\* issue the bulk insert
UP_Batch ==
    /\ up_pc = "batch"
    /\ MoreBatches(up_i, Len(chunks), error_count)
    /\ LET recs == BatchRecords(chunks, up_i) IN
       /\ records' = recs
       /\ \E ok \in BOOLEAN :
           /\ inserts' = Append(inserts, [kind |-> "bulk", at |-> up_i, n |-> Len(recs),
                                          ok |-> ok])
           /\ IF ok
              THEN /\ success_count' = success_count + Len(recs)
                   /\ stored' = stored \o recs
                   /\ up_i' = up_i + UploadBatchSize
                   /\ UNCHANGED <<up_pc, up_r, error_count>>
              ELSE /\ error_count' = AfterBulkFailure(error_count, Len(recs))
                   /\ up_pc' = "retry"
                   /\ up_r' = 1
                   /\ UNCHANGED <<up_i, success_count, stored>>
    /\ chunks' = AfterRecords(chunks, up_i)
    /\ UNCHANGED <<batch_size, be_pc, be_i, be_j, be_windows, be_single,
                   be_input, be_writes, be_first>>
    /\ UNCHANGED <<up_error, embedVars, chunkVars>>

\* one iteration of `for record in records`: the individual insert of one record
UP_Retry ==
    /\ up_pc = "retry"
    /\ up_r <= Len(records)
    /\ \E ok \in BOOLEAN :
        /\ inserts' = Append(inserts, [kind |-> "single", at |-> up_i + up_r - 1, n |-> 1,
                                       ok |-> ok])
        /\ IF ok
           THEN /\ success_count' = AfterRetrySuccess(success_count, error_count)[1]
                /\ error_count' = AfterRetrySuccess(success_count, error_count)[2]
                /\ stored' = Append(stored, records[up_r])
           ELSE UNCHANGED <<success_count, error_count, stored>>
        /\ IF RetryLoopOver(up_r, Len(records), ok)
           THEN /\ up_r' = 0
                /\ up_pc' = "batch"
                /\ up_i' = up_i + UploadBatchSize
           ELSE /\ up_r' = up_r + 1
                /\ UNCHANGED <<up_pc, up_i>>
    /\ UNCHANGED <<records, up_error, embedVars, batchVars, chunkVars>>

\* after the for loop: raise when error_count > 0, return otherwise
UP_Finish ==
    /\ up_pc = "batch"
    /\ ~MoreBatches(up_i, Len(chunks), error_count)
    /\ IF error_count > 0
       THEN up_pc' = "raised" /\ up_error' = AggregateError(error_count)
       ELSE up_pc' = "returned" /\ up_error' = NoError
    /\ UNCHANGED <<up_i, up_r, records, success_count, error_count, inserts, stored>>
    /\ UNCHANGED <<embedVars, batchVars, chunkVars>>

----------------------------------------------------------------------------
(* chunker.py *)

\* most chunks the splitter returns for one page
MaxPieces == 2
\* most documents in one run of main
MaxDocs == 2

MinChunkChars == 50
LowContentChars == 1000
WorkbookChunkSize == 500
WorkbookOverlap == 50
BookChunkSize == 2000
BookOverlap == 200

\* A filename, like every short string the code searches or edits, is the sequence
\* of its characters.
UpperCase == <<"A", "B", "C", "D", "E", "F", "G", "H", "I", "J", "K", "L", "M",
               "N", "O", "P", "Q", "R", "S", "T", "U", "V", "W", "X", "Y", "Z">>
LowerCase == <<"a", "b", "c", "d", "e", "f", "g", "h", "i", "j", "k", "l", "m",
               "n", "o", "p", "q", "r", "s", "t", "u", "v", "w", "x", "y", "z">>

\* str.lower() of one character
LowerChar(c) ==
    IF \E k \in 1..26 : UpperCase[k] = c
    THEN LowerCase[CHOOSE k \in 1..26 : UpperCase[k] = c]
    ELSE c

\* name.lower()
Lower(name) == [k \in 1..Len(name) |-> LowerChar(name[k])]

\* whether name[k:] starts with word (k 1-based)
StartsAt(name, k, word) ==
    /\ k + Len(word) - 1 <= Len(name)
    /\ SubSeq(name, k, k + Len(word) - 1) = word

\* `keyword in name`, re.search of a literal keyword
Occurs(keyword, name) == \E k \in 1..Len(name) : StartsAt(name, k, keyword)

RECURSIVE Without(_, _)
\* name.replace(token, ''): every occurrence goes, found from the left
Without(name, token) ==
    IF name = <<>> THEN <<>>
    ELSE IF StartsAt(name, 1, token)
         THEN Without(SubSeq(name, Len(token) + 1, Len(name)), token)
         ELSE <<Head(name)>> \o Without(Tail(name), token)

\* '.pdf' and "workbook"
dot_pdf == <<".", "p", "d", "f">>
workbook == <<"w", "o", "r", "k", "b", "o", "o", "k">>

\* stage_patterns, in the order of the dict; each pattern by the alternatives of
\* its regular expression
stage_patterns ==
    << [stage |-> "celebration", keywords |-> {<<"c", "e", "l", "e", "b", "r", "a", "t", "i", "o", "n">>}],
       [stage |-> "connection",
        keywords |-> {<<"c", "o", "n", "n", "e", "c", "t", "i", "o", "n">>,
                      <<"v", "i", "t", "a", "l", " ", "c", "o", "n", "n", "e", "c", "t", "i", "o", "n">>}],
       [stage |-> "spark",
        keywords |-> {<<"s", "p", "a", "r", "k">>,
                      <<"l", "o", "v", "e", "-", "s", "p", "a", "r", "k">>}],
       [stage |-> "payOff",
        keywords |-> {<<"p", "a", "y", "-", "o", "f", "f">>,
                      <<"p", "a", "y", "o", "f", "f">>,
                      <<"b", "i", "g", " ", "p", "a", "y", "-", "o", "f", "f">>}],
       [stage |-> "spiral",
        keywords |-> {<<"s", "p", "i", "r", "a", "l">>,
                      <<"s", "p", "i", "r", "a", "l", " ", "e", "f", "f", "e", "c", "t">>}] >>

\* re.search(pattern, name_lower)
Matches(pattern, name_lower) == \E w \in pattern.keywords : Occurs(w, name_lower)

RECURSIVE FirstStage(_, _)
\* the for loop over stage_patterns with its break, and the "general" default
FirstStage(patterns, name_lower) ==
    IF patterns = <<>> THEN "general"
    ELSE IF Matches(Head(patterns), name_lower) THEN Head(patterns).stage
    ELSE FirstStage(Tail(patterns), name_lower)

extract_metadata_from_filename(filename) ==
    LET name == Without(filename, dot_pdf) IN
    [workbookTitle |-> name, stage |-> FirstStage(stage_patterns, Lower(name))]

RECURSIVE Merged(_)
\* the run-length form of a sequence of runs: adjacent runs of one character joined
Merged(text) ==
    IF Len(text) < 2 THEN text
    ELSE IF text[1].ch = text[2].ch
         THEN Merged(<<Run(text[1].ch, text[1].n + text[2].n)>> \o SubSeq(text, 3, Len(text)))
         ELSE <<text[1]>> \o Merged(Tail(text))

IsNotNul(r) == r.ch # "NUL"

\* variant: the null characters are left in
RemoveNul_Keep(text) == text

\* text.replace('\x00', '')
RemoveNul(text) == Merged(SelectSeq(text, IsNotNul))

\* re.sub(r' +', ' ', text)
CollapseSpaces(text) ==
    [k \in 1..Len(text) |-> IF text[k].ch = "SP" THEN Run("SP", 1) ELSE text[k]]

\* re.sub(r'\n\n+', '\n\n', text)
CollapseNewlines(text) ==
    [k \in 1..Len(text) |-> IF text[k].ch = "NL" /\ text[k].n >= 2 THEN Run("NL", 2)
                            ELSE text[k]]

\* variant: the null characters are removed last
clean_chunk_text_NulLast(text) ==
    RemoveNul(Strip(CollapseNewlines(CollapseSpaces(text))))

\* clean_chunk_text: null characters out, runs of spaces to one space, runs of
\* two or more newlines to two, strip
clean_chunk_text(text) == Strip(CollapseNewlines(CollapseSpaces(RemoveNul(text))))

\* variant: the generic handler returns the pages read before the failure
extract_text_from_pdf_Partial(source) ==
    [raised |-> FALSE,
     pages |-> IF source.kind = "FileNotFoundError" THEN <<>> ELSE source.pages]

\* extract_text_from_pdf: the pages' texts; [] when the file is missing or when
\* opening or reading it fails (pages_text is dropped). It never raises.
extract_text_from_pdf(source) ==
    [raised |-> FALSE,
     pages |-> IF source.kind = "pages" THEN source.pages ELSE <<>>]

RECURSIVE SumLen(_)
\* sum(len(p) for p in text_by_page)
SumLen(pages) == IF pages = <<>> THEN 0 ELSE StrLen(Head(pages)) + SumLen(Tail(pages))

\* variant: "workbook" in filename, the case not folded
Mode_CaseSensitive(filename, pages) ==
    IF Occurs(workbook, filename)
       \/ SumLen(pages) < LowContentChars * (IF Len(pages) > 1 THEN Len(pages) ELSE 1)
    THEN "workbook" ELSE "book"

\* is_workbook or avg_page_length < 1000, with
\* avg_page_length = sum(len(p)) / max(len(text_by_page), 1)
Mode(filename, pages) ==
    IF Occurs(workbook, Lower(filename))
       \/ SumLen(pages) < LowContentChars * (IF Len(pages) > 1 THEN Len(pages) ELSE 1)
    THEN "workbook" ELSE "book"

\* the RecursiveCharacterTextSplitter built for the mode
Splitter(mode) ==
    IF mode = "workbook"
    THEN [chunk_size |-> WorkbookChunkSize, chunk_overlap |-> WorkbookOverlap]
    ELSE [chunk_size |-> BookChunkSize, chunk_overlap |-> BookOverlap]

\* splitter.split_text(page_text) is the library's: any sequence of 1..MaxPieces
\* pieces, each a stretch of consecutive runs of the page cut to chunk_size
\* characters, the stretches advancing through the page (they may overlap).
split_text(splitter, page_text) ==
    LET W == { w \in (1..Len(page_text)) \X (1..Len(page_text)) : w[1] <= w[2] }
        Advancing(ws) == \A k \in 1..(Len(ws) - 1) :
                            ws[k][1] < ws[k + 1][1] /\ ws[k][2] < ws[k + 1][2]
        Piece(w) == Prefix(SubSeq(page_text, w[1], w[2]), splitter.chunk_size)
    IN  UNION { { [k \in 1..n |-> Piece(ws[k])] : ws \in { x \in [1..n -> W] : Advancing(x) } } :
                n \in 1..MaxPieces }

\* if len(chunk_text) < 50: continue
TooSmall(chunk_text) == StrLen(chunk_text) < MinChunkChars

\* variant: `chunk_index += 1` forgotten
NextIndex_Same(index) == index

\* chunk_index after a chunk was appended
NextIndex(index) == index + 1

RECURSIVE EmitChunks(_, _, _, _, _, _, _)
\* `for chunk_text in page_chunks` of one page: <<chunks, chunk_index, number of
\* pieces skipped>> after it
EmitChunks(page_chunks, acc, index, dropped, metadata, pn, filename) ==
    IF page_chunks = <<>> THEN <<acc, index, dropped>>
    ELSE LET chunk_text == clean_chunk_text(Head(page_chunks)) IN
         IF TooSmall(chunk_text)
         THEN EmitChunks(Tail(page_chunks), acc, index, dropped + 1, metadata, pn, filename)
         ELSE EmitChunks(Tail(page_chunks),
                         Append(acc, [content |-> chunk_text,
                                      metadata |-> ("pageNumber" :> pn) @@ metadata,
                                      chunk_index |-> index,
                                      source_pdf |-> filename]),
                         NextIndex(index), dropped, metadata, pn, filename)

\* metadata = {} when None is passed
EmptyDict == [k \in {} |-> 0]

\* chunk_pdf(pdf_path, metadata) up to the page loop: the filename's metadata, the
\* text extraction with its early returns, the choice of the splitter
chunk_pdf(path, metadata) ==
    LET filename == path.name
        extracted == extract_text_from_pdf(path.source)
    IN
    /\ cp_pc = "idle"
    /\ cp_filename' = filename
    /\ cp_metadata' = extract_metadata_from_filename(filename) @@ metadata
    /\ cp_chunks' = <<>>
    /\ chunk_index' = 0
    /\ cp_dropped' = 0
    /\ page_num' = 1
    /\ IF extracted.raised \/ extracted.pages = <<>>
       THEN /\ cp_pc' = "returned"
            /\ text_by_page' = <<>>
            /\ cp_mode' = "book"
       ELSE /\ cp_pc' = "pages"
            /\ text_by_page' = extracted.pages
            /\ cp_mode' = Mode(filename, extracted.pages)

\* main: chunks = chunk_pdf(str(pdf_path)) for the next document
CP_Enter ==
    /\ doc \in 1..Len(pdf_files)
    /\ chunk_pdf(pdf_files[doc], EmptyDict)
    /\ UNCHANGED <<pdf_files, doc, all_chunks, outputs>>
    /\ UNCHANGED <<embedVars, batchVars, uploadVars, nzVars>>

\* variant: enumerate(text_by_page), numbering from 0
Numbered_FromZero(pos) == pos - 1

\* enumerate(text_by_page, start=1): the number paired with the page at the
\* 1-based position pos of the list
Numbered(pos) == pos

\* one iteration of `for page_num, page_text in enumerate(text_by_page, start=1)`
CP_Page ==
    /\ cp_pc = "pages"
    /\ page_num <= Len(text_by_page)
    /\ LET page_text == text_by_page[page_num] IN
       IF Strip(page_text) = <<>>
       THEN UNCHANGED <<cp_chunks, chunk_index, cp_dropped>>
       ELSE \E page_chunks \in split_text(Splitter(cp_mode), page_text) :
               LET after == EmitChunks(page_chunks, cp_chunks, chunk_index, cp_dropped,
                                       cp_metadata, Numbered(page_num), cp_filename) IN
               /\ cp_chunks' = after[1]
               /\ chunk_index' = after[2]
               /\ cp_dropped' = after[3]
    /\ page_num' = page_num + 1
    /\ UNCHANGED <<pdf_files, doc, all_chunks, outputs, cp_pc, cp_filename, cp_metadata,
                   text_by_page, cp_mode>>
    /\ UNCHANGED <<embedVars, batchVars, uploadVars, nzVars>>

\* the page loop is over: return chunks
CP_Return ==
    /\ cp_pc = "pages"
    /\ page_num > Len(text_by_page)
    /\ cp_pc' = "returned"
    /\ UNCHANGED <<pdf_files, doc, all_chunks, outputs, cp_filename, cp_metadata,
                   text_by_page, cp_mode, page_num, cp_chunks, chunk_index, cp_dropped>>
    /\ UNCHANGED <<embedVars, batchVars, uploadVars, nzVars>>

----------------------------------------------------------------------------
(* ingest_pdfs.py: the document loop of main *)

\* main with pdf_files as found by the glob, up to the document loop
main(files) ==
    /\ doc = 0
    /\ pdf_files' = files
    /\ doc' = 1
    /\ all_chunks' = <<>>
    /\ outputs' = <<>>
    /\ UNCHANGED <<cp_pc, cp_filename, cp_metadata, text_by_page, cp_mode, page_num,
                   cp_chunks, chunk_index, cp_dropped>>
    /\ UNCHANGED <<embedVars, batchVars, uploadVars, nzVars>>

\* chunk_pdf returned: `if not chunks: continue`, else all_chunks.extend(chunks)
MAIN_Collect ==
    /\ cp_pc = "returned"
    /\ outputs' = Append(outputs, cp_chunks)
    /\ all_chunks' = IF cp_chunks = <<>> THEN all_chunks ELSE all_chunks \o cp_chunks
    /\ doc' = doc + 1
    /\ cp_pc' = "idle"
    /\ cp_chunks' = <<>>
    /\ UNCHANGED <<pdf_files, cp_filename, cp_metadata, text_by_page, cp_mode, page_num,
                   chunk_index, cp_dropped>>
    /\ UNCHANGED <<embedVars, batchVars, uploadVars, nzVars>>

----------------------------------------------------------------------------
(* Initial states and specifications *)

EmbedInit ==
    /\ api_key \in BOOLEAN
    /\ service = "live"
    /\ client \in (IF api_key THEN {"None", "OpenAI"} ELSE {"None"})
    /\ created = IF client = "OpenAI" THEN 1 ELSE 0
    /\ ge_idle(ge_pc, ge_arg, ge_text, ge_max_retries, ge_attempt, ge_result,
               ge_error, ge_resps, ge_sent, ge_sleeps)

BatchInit ==
    /\ chunks = <<>>
    /\ batch_size = 1
    /\ be_pc = "idle"
    /\ be_i = 0
    /\ be_j = 0
    /\ be_windows = <<>>
    /\ be_single = <<>>
    /\ be_input = <<>>
    /\ be_writes = <<>>
    /\ be_first = NoRun

UploadInit ==
    /\ up_pc = "idle"
    /\ up_i = 0
    /\ up_r = 0
    /\ records = <<>>
    /\ success_count = 0
    /\ error_count = 0
    /\ up_error = -1
    /\ inserts = <<>>
    /\ stored = <<>>

ChunkInit ==
    /\ pdf_files = <<>>
    /\ doc = 0
    /\ all_chunks = <<>>
    /\ outputs = <<>>
    /\ cp_pc = "idle"
    /\ cp_filename = <<>>
    /\ cp_metadata = <<>>
    /\ text_by_page = <<>>
    /\ cp_mode = "book"
    /\ page_num = 1
    /\ cp_chunks = <<>>
    /\ chunk_index = 0
    /\ cp_dropped = 0

\* clean_chunk_text not applied on its own
CleanIdle ==
    /\ nz_pc = "raw"
    /\ nz_text = <<>>
    /\ nz_once = <<>>
    /\ nz_twice = <<>>

Init == EmbedInit /\ BatchInit /\ UploadInit /\ ChunkInit /\ CleanIdle

\* the stages that never touch the embedding service start from one state of it
InitOffline == Init /\ api_key /\ client = "None"

\* the texts generate_embedding is called with
GenTexts ==
    { <<>>,
      <<Run("SP", 2)>>,
      <<Run("NL", 1), Run("SP", 1)>>,
      <<Run("a", 5)>>,
      <<Run("SP", 1), Run("a", 3)>>,
      <<Run("a", MaxTextChars)>>,
      <<Run("a", MaxTextChars - 1), Run("b", 2)>>,
      <<Run("SP", MaxTextChars), Run("a", 1)>> }

\* a caller invokes generate_embedding(text, max_retries)
GE_Enter ==
    /\ ge_pc = "idle"
    /\ \E text \in GenTexts, m \in 0..MaxRetries : generate_embedding(text, m)
    /\ UNCHANGED <<batchVars, uploadVars, chunkVars>>

NextGenerate == GE_Enter \/ GE_NoClient \/ GE_Call \/ GE_Exhausted

SpecGenerate == Init /\ [][NextGenerate]_vars

\* the contents of the chunks batch_embed is called with
BatchTexts == { <<Run("SP", 1)>>, <<Run("a", 60)>> }

\* a chunk record as chunk_pdf builds it, for the p-th chunk of a document
Chunk(text, p) ==
    [content |-> text,
     metadata |-> [stage |-> "general", workbookTitle |-> "book", pageNumber |-> 1],
     chunk_index |-> p - 1,
     source_pdf |-> "book.pdf"]

ChunkLists ==
    UNION { { [p \in 1..n |-> Chunk(f[p], p)] : f \in [1..n -> BatchTexts] } : n \in 0..MaxChunks }

\* a caller invokes batch_embed(chunks, batch_size)
BE_Enter ==
    /\ be_pc = "idle"
    /\ \E cs \in ChunkLists, size \in 1..MaxBatchSize : batch_embed(cs, size)
    /\ UNCHANGED be_first

\* batch_embed calls generate_embedding with max_retries = 3, whose last iteration
\* returns or raises: the loop never runs out, GE_Exhausted never applies here
NextBatch ==
    \/ BE_Enter
    \/ BE_WindowNoClient
    \/ BE_Window
    \/ BE_Fallback
    \/ GE_NoClient
    \/ GE_Call
    \/ BE_FallbackStore
    \/ BE_Return

SpecBatch == Init /\ [][NextBatch]_vars

\* batch_embed runs in one thread that is never suspended for good: a step that
\* can be taken is taken
SpecBatchFair == SpecBatch /\ WF_vars(NextBatch)

\* the embedding a chunk carries, or the mark that it carries none
Absent == [absent |-> TRUE]
EmbeddingOf(chunk) == IF HasEmbedding(chunk) THEN chunk.embedding ELSE Absent

\* a caller invokes batch_embed again on the list an earlier call returned
BE_Again ==
    /\ be_pc = "done"
    /\ ~be_first.ran
    /\ \E size \in 1..MaxBatchSize : batch_embed(chunks, size)
    /\ be_first' = [ran |-> TRUE,
                    embeddings |-> [p \in 1..Len(chunks) |-> EmbeddingOf(chunks[p])]]

MockInit ==
    /\ api_key = TRUE
    /\ service = "mock"
    /\ client = "OpenAI"
    /\ created = 1
    /\ ge_idle(ge_pc, ge_arg, ge_text, ge_max_retries, ge_attempt, ge_result,
               ge_error, ge_resps, ge_sent, ge_sleeps)
    /\ BatchInit /\ UploadInit /\ ChunkInit /\ CleanIdle

\* batch_embed against the mock, once and a second time on the same list
NextBatchTwice ==
    \/ BE_Enter
    \/ BE_Window
    \/ BE_Return
    \/ BE_Again

SpecBatchTwice == MockInit /\ [][NextBatchTwice]_vars

\* the chunk lists upload_chunks is called with: every chunk has its embedding
EmbeddedLists ==
    UNION { { [p \in 1..n |-> SetEmbedding(Chunk(f[p], p), ServiceVector(f[p]))] :
              f \in [1..n -> {<<Run("a", 60)>>, <<Run("b", 60)>>}] } : n \in 0..MaxRecords }

\* a caller invokes upload_chunks(chunks)
UP_Enter ==
    /\ up_pc = "idle"
    /\ \E cs \in EmbeddedLists, credentials \in BOOLEAN : upload_chunks(cs, credentials)

NextUpload == UP_Enter \/ UP_Batch \/ UP_Retry \/ UP_Finish

SpecUpload == InitOffline /\ [][NextUpload]_vars

\* main, steps 2 and 3: chunks_with_embeddings = batch_embed(all_chunks), then
\* upload_chunks(chunks_with_embeddings)
MAIN_Upload ==
    /\ be_pc = "done"
    /\ \E credentials \in BOOLEAN : upload_chunks(chunks, credentials)

NextPipeline ==
    \/ NextBatch
    \/ MAIN_Upload
    \/ UP_Batch
    \/ UP_Retry
    \/ UP_Finish

SpecPipeline == Init /\ [][NextPipeline]_vars

\* page texts: none, blanks only, one long enough chunk, short pieces around a null
\* character and blanks, a dense page
PageEmpty == <<>>
PageBlank == <<Run("SP", 3), Run("NL", 2)>>
PagePlain == <<Run("a", 60), Run("b", 60)>>
PageMixed == <<Run("a", 49), Run("NUL", 1), Run("SP", 2), Run("b", 60)>>
PageDense == <<Run("a", 1990), Run("NL", 3), Run("b", 40)>>

Pages(texts) == [kind |-> "pages", pages |-> texts]

\* the filenames of the documents of a run
\* "TIC Workbook 1 - Celebration.pdf"
file_tic ==
    <<"T", "I", "C", " ", "W", "o", "r", "k", "b", "o", "o", "k", " ", "1",
      " ", "-", " ", "C", "e", "l", "e", "b", "r", "a", "t", "i", "o", "n",
      ".", "p", "d", "f">>
\* "book.pdf"
file_book ==
    <<"b", "o", "o", "k", ".", "p", "d", "f">>
\* "notes.pdf"
file_notes ==
    <<"n", "o", "t", "e", "s", ".", "p", "d", "f">>
\* "cover.pdf"
file_cover ==
    <<"c", "o", "v", "e", "r", ".", "p", "d", "f">>
\* "missing.pdf"
file_missing ==
    <<"m", "i", "s", "s", "i", "n", "g", ".", "p", "d", "f">>
\* "corrupt.pdf"
file_corrupt ==
    <<"c", "o", "r", "r", "u", "p", "t", ".", "p", "d", "f">>

\* the documents of a run: their path (directory and filename) and what the
\* page-text source does for them; the glob is recursive, so a filename can
\* occur in two directories
Docs ==
    { [dir |-> "in", name |-> file_tic,
       source |-> Pages(<<PageMixed, PageBlank, PagePlain>>)],
      [dir |-> "in/archive", name |-> file_book, source |-> Pages(<<PagePlain>>)],
      [dir |-> "in", name |-> file_book,
       source |-> Pages(<<PageDense, PageEmpty, PageDense>>)],
      [dir |-> "in", name |-> file_notes,
       source |-> Pages(<<PageBlank, PageEmpty>>)],
      [dir |-> "in", name |-> file_cover, source |-> Pages(<<>>)],
      [dir |-> "in", name |-> file_missing,
       source |-> [kind |-> "FileNotFoundError", pages |-> <<>>]],
      [dir |-> "in", name |-> file_corrupt,
       source |-> [kind |-> "Exception", pages |-> <<PagePlain>>]] }

\* main starts on the documents the glob found: distinct paths, in any order
MAIN_Enter ==
    /\ doc = 0
    /\ \E n \in 1..MaxDocs : \E files \in [1..n -> Docs] :
          /\ \A k \in 1..n, l \in 1..n : files[k] = files[l] => k = l
          /\ main(files)

NextChunk == MAIN_Enter \/ CP_Enter \/ CP_Page \/ CP_Return \/ MAIN_Collect

SpecChunk == InitOffline /\ [][NextChunk]_vars

\* most runs, and longest run, of the texts clean_chunk_text is applied to on its own
MaxRuns == 4
MaxRunLen == 3

\* the characters of those texts: null, space, newline and another character
CleanChars == {"NUL", "SP", "NL", "a"}

\* every text of at most MaxRuns runs over CleanChars
CleanTexts ==
    UNION { { t \in [1..n -> [ch : CleanChars, n : 1..MaxRunLen]] :
                \A k \in 1..(n - 1) : t[k].ch # t[k + 1].ch } : n \in 0..MaxRuns }

InitClean ==
    /\ EmbedInit /\ api_key /\ client = "None"
    /\ BatchInit /\ UploadInit /\ ChunkInit
    /\ nz_pc = "raw"
    /\ nz_text \in CleanTexts
    /\ nz_once = <<>>
    /\ nz_twice = <<>>

\* y = clean_chunk_text(x)
NZ_Clean ==
    /\ nz_pc = "raw"
    /\ nz_once' = clean_chunk_text(nz_text)
    /\ nz_pc' = "once"
    /\ UNCHANGED <<nz_text, nz_twice, embedVars, batchVars, uploadVars, cpVars>>

\* z = clean_chunk_text(y)
NZ_CleanAgain ==
    /\ nz_pc = "once"
    /\ nz_twice' = clean_chunk_text(nz_once)
    /\ nz_pc' = "twice"
    /\ UNCHANGED <<nz_text, nz_once, embedVars, batchVars, uploadVars, cpVars>>

NextClean == NZ_Clean \/ NZ_CleanAgain

SpecClean == InitClean /\ [][NextClean]_vars

\* most words in the stem of a filename chunk_pdf is called with directly
MaxWords == 2

\* the words the filenames of direct calls are made of: "Celebration",
\* "Vital Connection", "love-spark", "Big Pay-Off", "payoff", "Spiral", "WORKbook",
\* "spi.pdf", "ral"
Vocabulary ==
    { <<"C", "e", "l", "e", "b", "r", "a", "t", "i", "o", "n">>,
      <<"V", "i", "t", "a", "l", " ", "C", "o", "n", "n", "e", "c", "t", "i", "o", "n">>,
      <<"l", "o", "v", "e", "-", "s", "p", "a", "r", "k">>,
      <<"B", "i", "g", " ", "P", "a", "y", "-", "O", "f", "f">>,
      <<"p", "a", "y", "o", "f", "f">>,
      <<"S", "p", "i", "r", "a", "l">>,
      <<"W", "O", "R", "K", "b", "o", "o", "k">>,
      <<"s", "p", "i", ".", "p", "d", "f">>,
      <<"r", "a", "l">> }

RECURSIVE Stems(_)
\* the concatenations of n words
Stems(n) ==
    IF n = 0 THEN { <<>> }
    ELSE { w \o rest : w \in Vocabulary, rest \in Stems(n - 1) }

\* the filenames of direct calls: 1..MaxWords words and the extension, ".pdf" or ".PDF"
CallNames ==
    { stem \o ext : stem \in UNION { Stems(n) : n \in 1..MaxWords },
                    ext \in { dot_pdf, <<".", "P", "D", "F">> } }

\* the page texts of the documents of direct calls: two short pages; one page of
\* exactly 1000 characters; a page of 1999 characters and an empty one; a page
\* of 60 characters and 950 spaces
CallPages ==
    { << <<Run("a", 999)>>, <<Run("b", 700)>> >>,
      << <<Run("a", 1000)>> >>,
      << <<Run("a", 1999)>>, PageEmpty >>,
      << <<Run("a", 60), Run("SP", 950)>> >> }

\* the metadata argument: None, or a dict with a stage and a key of the caller's own
PassedMetadata == { EmptyDict, [stage |-> "spiral", origin |-> "upload"] }

\* a caller (a test, another script) invokes chunk_pdf(pdf_path, metadata)
CALL_Enter ==
    /\ cp_pc = "idle"
    /\ \E name \in CallNames, pages \in CallPages, metadata \in PassedMetadata :
          chunk_pdf([dir |-> "in", name |-> name, source |-> Pages(pages)], metadata)
    /\ UNCHANGED <<pdf_files, doc, all_chunks, outputs>>
    /\ UNCHANGED <<embedVars, batchVars, uploadVars, nzVars>>

NextCall == CALL_Enter \/ CP_Page \/ CP_Return

SpecCall == InitOffline /\ [][NextCall]_vars

----------------------------------------------------------------------------
(* Properties of batch_embed (SpecBatch) *)

\* --- C1: when batch_embed returns, every input chunk has an 'embedding' field,
\* the vector the service computed for its content or the all-zero vector; no
\* chunk is left without one.
C1_EveryChunkEmbedded ==
    be_pc = "done" =>
        \A p \in 1..Len(chunks) :
            /\ "embedding" \in DOMAIN chunks[p]
            /\ chunks[p].embedding \in {ServiceVector(chunks[p].content), ZeroVector}

\* a three-chunk list embedded with batch_size 2: one window answered, the other
\* failed, and of its chunks one got the zero vector and one a service vector
C1_Witness ==
    /\ be_pc = "done"
    /\ Len(chunks) = 3
    /\ batch_size = 2
    /\ \E k \in 1..Len(be_windows) : be_windows[k][2] = "ok"
    /\ \E k \in 1..Len(be_windows) : be_windows[k][2] # "ok"
    /\ \E p \in 1..3 : "embedding" \in DOMAIN chunks[p] /\ chunks[p].embedding = ZeroVector
    /\ \E k \in 1..Len(be_single) : be_single[k][2] = "returned"

RECURSIVE WindowStarts(_, _, _)
\* the values of range(i, total, size)
WindowStarts(i, total, size) ==
    IF i >= total THEN <<>> ELSE <<i>> \o WindowStarts(i + size, total, size)

\* --- C2: batch_embed never propagates an embedding-service failure: it never
\* ends by raising, and when it returns it has gone through every window, also
\* after window calls and individual calls failed.
C2_NeverPropagates ==
    /\ be_pc # "raised"
    /\ be_pc = "done" =>
          [k \in 1..Len(be_windows) |-> be_windows[k][1]]
              = WindowStarts(0, Len(chunks), batch_size)

\* every call failed: two windows, both failed with a non-rate-limit error, and
\* every individual call raised; batch_embed returned all the same
C2_Witness ==
    /\ be_pc = "done"
    /\ Len(be_windows) = 2
    /\ \A k \in 1..Len(be_windows) : be_windows[k][2] = "error"
    /\ Len(be_single) = Len(chunks)
    /\ \A k \in 1..Len(be_single) : be_single[k][2] = "raised"

----------------------------------------------------------------------------
(* Properties of upload_chunks (SpecUpload) *)

\* the number of individual inserts that failed: the records that failed both
\* their bulk insert and their retry
FailedRetries == Cardinality({k \in 1..Len(inserts) : inserts[k].kind = "single" /\ ~inserts[k].ok})

UploadOver == up_pc \in {"returned", "raised"} /\ up_error.type # "ValueError"

\* --- C3: upload_chunks on N records of which exactly k fail both the bulk
\* insert and the retry ends with error_count = k and success_count = N - k; it
\* raises one error carrying k when k >= 1 and returns when k = 0.
C3_AggregateCounts ==
    UploadOver =>
        LET k == FailedRetries IN
        /\ error_count = k
        /\ success_count = Len(chunks) - k
        /\ IF k >= 1
           THEN up_pc = "raised" /\ up_error = [type |-> "Exception", count |-> k]
           ELSE up_pc = "returned" /\ up_error = [type |-> "none"]

\* four records, both bulk inserts failed, two retries failed and two succeeded
C3_Witness ==
    /\ up_pc = "raised"
    /\ Len(chunks) = 4
    /\ FailedRetries = 2
    /\ success_count = 2
    /\ \A k \in 1..Len(inserts) : inserts[k].kind = "bulk" => ~inserts[k].ok

\* an insert call of the log that carried the record at 0-based position p
Attempted(p) ==
    \E k \in 1..Len(inserts) : inserts[k].at <= p /\ p < inserts[k].at + inserts[k].n

\* --- C4: an insert failure never aborts upload_chunks: when it ends (returning
\* or raising the aggregate error) an insert was attempted for every record and
\* a bulk insert was issued for every batch, in order.
C4_NoAbortMidStream ==
    UploadOver =>
        /\ \A p \in 0..(Len(chunks) - 1) : Attempted(p)
        /\ LET bulk == SelectSeq(inserts, LAMBDA c : c.kind = "bulk") IN
           [k \in 1..Len(bulk) |-> bulk[k].at]
               = WindowStarts(0, Len(chunks), UploadBatchSize)

\* the first batch failed as a whole and record by record; the second batch was
\* still submitted, and the error was raised after it
C4_Witness ==
    /\ up_pc = "raised"
    /\ Len(chunks) = 4
    /\ Len(inserts) = 4
    /\ ~inserts[1].ok /\ ~inserts[2].ok /\ ~inserts[3].ok
    /\ inserts[4].kind = "bulk" /\ inserts[4].ok
    /\ up_error = [type |-> "Exception", count |-> 2]

----------------------------------------------------------------------------
(* Properties of generate_embedding (SpecGenerate) *)

OnlyWhitespace(text) == \A k \in 1..Len(text) : text[k].ch \in {"SP", "NL"}

AllRateLimit(resps) == \A k \in 1..Len(resps) : resps[k] = "rate_limit"

\* --- C5: a non-rate-limit error of the service is not retried: for
\* max_retries >= 1 it is the last answer generate_embedding asks for, and
\* generate_embedding raises it.
C5_HardFailureNotRetried ==
    (ge_pc # "idle" /\ ge_max_retries >= 1) =>
        \A k \in 1..Len(ge_resps) :
            ge_resps[k] = "error" =>
                /\ k = Len(ge_resps)
                /\ ge_pc = "raised"
                /\ ge_error = "error"

\* --- C6: generate_embedding(text, m), m >= 1, on non-blank text makes at most m
\* service calls; a success that follows rate-limit errors only is returned at
\* once, and m rate-limit errors in a row make it raise the rate-limit error.
C6_BoundedRetry ==
    (ge_pc # "idle" /\ ge_max_retries >= 1 /\ ~OnlyWhitespace(ge_arg)) =>
        LET n == Len(ge_resps) IN
        /\ n <= ge_max_retries
        /\ Len(ge_sent) = n
        /\ (n >= 1 /\ ge_resps[n] = "ok" /\ AllRateLimit(SubSeq(ge_resps, 1, n - 1))) =>
              /\ ge_pc = "returned"
              /\ ge_result = [dim |-> 1536, zero |-> FALSE, of |-> ge_sent[n]]
        /\ (n = ge_max_retries /\ AllRateLimit(ge_resps)) =>
              /\ ge_pc = "raised"
              /\ ge_error = "rate_limit"

\* three attempts, all rate-limited: raised after the third call
C6_Witness ==
    /\ ge_pc = "raised"
    /\ ge_max_retries = 3
    /\ ge_resps = <<"rate_limit", "rate_limit", "rate_limit">>
    /\ ge_error = "rate_limit"

RECURSIVE Power(_, _)
Power(b, e) == IF e = 0 THEN 1 ELSE b * Power(b, e - 1)

RECURSIVE Total(_)
Total(seq) == IF seq = <<>> THEN 0 ELSE Head(seq) + Total(Tail(seq))

RECURSIVE BackoffOf(_, _, _)
\* the waits owed for the answers resps of attempts a, a + 1, ...: 2^a after a
\* rate-limit error of an attempt that is not the last of m
BackoffOf(resps, a, m) ==
    IF resps = <<>> THEN <<>>
    ELSE (IF Head(resps) = "rate_limit" /\ a + 1 < m THEN <<Power(2, a)>> ELSE <<>>)
         \o BackoffOf(Tail(resps), a + 1, m)

\* --- C7: the wait before the retry that follows a rate-limit error on attempt
\* a is 2^a seconds; a call that succeeds after j rate-limit errors has waited
\* 2^j - 1 seconds in all; nothing is waited after the final attempt failed.
C7_ExponentialBackoff ==
    (ge_pc # "idle" /\ ge_max_retries >= 1) =>
        /\ ge_sleeps = BackoffOf(ge_resps, 0, ge_max_retries)
        /\ (ge_pc = "returned" /\ ge_resps # <<>>
            /\ AllRateLimit(SubSeq(ge_resps, 1, Len(ge_resps) - 1))) =>
               Total(ge_sleeps) = Power(2, Len(ge_resps) - 1) - 1
        /\ ge_pc = "raised" => Len(ge_sleeps) < ge_max_retries

\* success on the third attempt after two rate-limit errors: waited 1 + 2 = 3
C7_Witness ==
    /\ ge_pc = "returned"
    /\ ge_resps = <<"rate_limit", "rate_limit", "ok">>
    /\ ge_sleeps = <<1, 2>>
    /\ Total(ge_sleeps) = 3

\* --- C8: generate_embedding on empty or whitespace-only text returns the
\* all-zero vector of dimension 1536 at once, submits nothing to the service and
\* does not create the client, whatever the service would answer.
C8_BlankTextZeroVector ==
    /\ [](  (ge_pc # "idle" /\ OnlyWhitespace(ge_arg)) =>
               /\ ge_pc = "returned"
               /\ ge_result = [dim |-> 1536, zero |-> TRUE, of |-> <<>>]
               /\ ge_resps = <<>>
               /\ ge_sent = <<>> )
    /\ [][ (ge_pc' # "idle" /\ OnlyWhitespace(ge_arg')) =>
               (client' = client /\ created' = created) ]_vars

\* whitespace-only text, a key is set and no client exists yet: the zero vector
\* came back and there is still no client
C8_Witness ==
    /\ ge_pc = "returned"
    /\ ge_arg = <<[ch |-> "SP", n |-> 2]>>
    /\ ge_result.zero
    /\ api_key
    /\ client = "None"
    /\ created = 0

----------------------------------------------------------------------------
(* Properties of chunk_pdf and the document loop (SpecChunk) *)

Sequential(cs) == \A k \in 1..Len(cs) : cs[k].chunk_index = k - 1

\* --- C9: the chunk_index values of the chunks chunk_pdf returns are 0, 1, ...,
\* n-1 in list order, also when blank pages are skipped and too small chunks
\* discarded.
C9_ChunkIndexContiguous ==
    /\ Sequential(cp_chunks)
    /\ \A d \in 1..Len(outputs) : Sequential(outputs[d])

\* a document whose second page is blank and one of whose pieces was discarded:
\* its chunks come from pages 1 and 3 and are numbered 0, 1
C9_Witness ==
    /\ cp_pc = "returned"
    /\ Len(text_by_page) = 3
    /\ Strip(text_by_page[2]) = <<>>
    /\ cp_dropped >= 1
    /\ Len(cp_chunks) = 2
    /\ cp_chunks[1].metadata.pageNumber = 1
    /\ cp_chunks[2].metadata.pageNumber = 3
    /\ cp_chunks[2].chunk_index = 1

RECURSIVE Flat(_)
Flat(lists) == IF lists = <<>> THEN <<>> ELSE Head(lists) \o Flat(Tail(lists))

Failing(d) == pdf_files[d].source.kind # "pages"

\* --- C10: when the page-text source fails for a document, chunk_pdf returns an
\* empty list and does not raise, and all_chunks holds exactly the chunks of the
\* other documents, each numbered from 0 under its own filename.
C10_FailingDocumentIsolated ==
    /\ cp_pc # "raised"
    /\ (cp_pc = "returned" /\ doc \in 1..Len(pdf_files) /\ Failing(doc)) => cp_chunks = <<>>
    /\ \A d \in 1..Len(outputs) : Failing(d) => outputs[d] = <<>>
    /\ all_chunks = Flat([d \in 1..Len(outputs) |->
                            IF Failing(d) THEN <<>> ELSE outputs[d]])
    /\ \A d \in 1..Len(outputs) : \A k \in 1..Len(outputs[d]) :
          /\ outputs[d][k].source_pdf = pdf_files[d].name
          /\ outputs[d][k].chunk_index = k - 1

\* a run over a corrupt document followed by a good one: the first gave nothing,
\* the second its chunks
C10_Witness ==
    /\ Len(outputs) = 2
    /\ pdf_files[1].source.kind = "Exception"
    /\ pdf_files[1].source.pages # <<>>
    /\ outputs[1] = <<>>
    /\ pdf_files[2].source.kind = "pages"
    /\ Len(outputs[2]) >= 2
    /\ all_chunks = outputs[2]

\* the vector the embedding service returns for a text
VectorFor(text) == [dim |-> 1536, zero |-> FALSE, of |-> text]

\* C11: against a deterministic embedding service that returns one vector per
\* submitted text, whatever the batch size, a chunk list batch_embed has returned
\* carries at every position p the vector the service returned for the content of
\* the chunk at p, and a second batch_embed call on the same list leaves every
\* chunk with the embedding the first call gave it.
C11_NoCrossAssignment ==
    be_pc = "done" =>
        /\ \A p \in 1..Len(chunks) :
              /\ HasEmbedding(chunks[p])
              /\ chunks[p].embedding = VectorFor(chunks[p].content)
        /\ be_first.ran =>
              /\ Len(be_first.embeddings) = Len(chunks)
              /\ \A p \in 1..Len(chunks) :
                    EmbeddingOf(chunks[p]) = be_first.embeddings[p]

\* a second call with another batch size has returned on a list of three chunks
\* of different contents, the first call having used two windows
C11_Witness ==
    /\ be_pc = "done"
    /\ be_first.ran
    /\ Len(chunks) = 3
    /\ chunks[1].content # chunks[2].content
    /\ chunks[2].content # chunks[3].content
    /\ batch_size = 1
    /\ Len(be_windows) = 3
    /\ \A p \in 1..3 : be_first.embeddings[p] = VectorFor(chunks[p].content)

\* the chunk at position p keeps, over a step, the embedding it has
KeepsEmbedding(p) ==
    /\ p <= Len(chunks')
    /\ HasEmbedding(chunks'[p])
    /\ chunks'[p].embedding = chunks[p].embedding

\* C12: through batch_embed and the upload_chunks call that follows it, a chunk
\* that has an embedding keeps that embedding over every step; within the
\* batch_embed call no position is assigned an embedding more than once and at its
\* return every position has been assigned exactly once; no step of upload_chunks
\* changes the chunk list.
C12_EmbeddingWrittenOnce ==
    /\ [](\A p \in 1..Len(be_writes) : be_writes[p] <= 1)
    /\ [](be_pc = "done" =>
             /\ Len(be_writes) = Len(chunks)
             /\ \A p \in 1..Len(chunks) : be_writes[p] = 1)
    /\ [][\A p \in 1..Len(chunks) : HasEmbedding(chunks[p]) => KeepsEmbedding(p)]_vars
    /\ [][up_pc' # "idle" => chunks' = chunks]_vars

\* upload_chunks has returned on a list of which batch_embed embedded one window
\* by the window call and another through the individual fallback
C12_Witness ==
    /\ up_pc = "returned"
    /\ Len(chunks) = 3
    /\ Len(stored) = 3
    /\ \E k \in 1..Len(be_windows) : be_windows[k][2] = "ok"
    /\ \E k \in 1..Len(be_single) : be_single[k][2] = "returned"
    /\ \E k \in 1..Len(inserts) : ~inserts[k].ok
    /\ \A p \in 1..3 : be_writes[p] = 1

\* the chunks chunk_pdf has emitted so far in the run: those of the call in
\* progress and those of the calls that returned
Emitted == cp_chunks \o Flat(outputs) \o all_chunks

HasNul(text) == \E k \in 1..Len(text) : text[k].ch = "NUL"

\* C13: every chunk chunk_pdf emits, in workbook mode and in book mode, has a
\* content of at least 50 characters, as measured on the normalized text, and
\* contains no null character.
C13_MinimumFloor ==
    \A k \in 1..Len(Emitted) :
        /\ StrLen(Emitted[k].content) >= 50
        /\ ~HasNul(Emitted[k].content)

\* after a workbook-mode document whose page held 49 characters, a null
\* character, two spaces and 60 characters gave the 110-character chunk, a
\* book-mode document has emitted a chunk and discarded a piece
C13_Witness ==
    /\ Len(outputs) = 1
    /\ \E k \in 1..Len(outputs[1]) :
          outputs[1][k].content = <<Run("a", 49), Run("SP", 1), Run("b", 60)>>
    /\ cp_pc = "returned"
    /\ cp_mode = "book"
    /\ cp_chunks # <<>>
    /\ cp_dropped >= 1

\* chunk c is the normalized form of a piece of the page that stands at position
\* c.metadata.pageNumber of pages, cut to a target size
FromItsPage(c, pages) ==
    LET pn == c.metadata.pageNumber IN
    /\ pn \in 1..Len(pages)
    /\ \E w1 \in 1..Len(pages[pn]), w2 \in 1..Len(pages[pn]), size \in {500, 2000} :
          /\ w1 <= w2
          /\ c.content = clean_chunk_text(Prefix(SubSeq(pages[pn], w1, w2), size))

PagesAscend(cs) ==
    \A k \in 1..Len(cs), l \in 1..Len(cs) :
        cs[k].chunk_index < cs[l].chunk_index =>
            cs[k].metadata.pageNumber <= cs[l].metadata.pageNumber

\* C14: the pageNumber of every chunk chunk_pdf emits is the 1-based position, in
\* the list the page-text source returned, of the one page the chunk's text is a
\* piece of, the skipped pages counting; pageNumber never decreases as chunk_index
\* grows.
C14_PageNumberExact ==
    /\ \A k \in 1..Len(cp_chunks) : FromItsPage(cp_chunks[k], text_by_page)
    /\ PagesAscend(cp_chunks)

\* a document of three pages, the second blank: one chunk of page 1, then two
\* chunks of page 3
C14_Witness ==
    /\ cp_pc = "returned"
    /\ Len(text_by_page) = 3
    /\ text_by_page[2] = PageBlank
    /\ Len(cp_chunks) = 3
    /\ cp_chunks[1].metadata.pageNumber = 1
    /\ cp_chunks[2].metadata.pageNumber = 3
    /\ cp_chunks[3].metadata.pageNumber = 3
    /\ cp_chunks[2].content # cp_chunks[3].content

\* the positions of the table whose pattern has a keyword occurring in text
Hits(text) ==
    { k \in 1..Len(stage_patterns) :
        \E w \in stage_patterns[k].keywords : Occurs(w, text) }

\* the first tag, in table order, with a keyword occurring in the filename read
\* case-insensitively; "general" when there is none
FirstTagIn(filename) ==
    LET hits == Hits(Lower(filename)) IN
    IF hits = {} THEN "general"
    ELSE stage_patterns[CHOOSE k \in hits : \A l \in hits : k <= l].stage

\* C15: the table's order is celebration, connection, spark, payOff, spiral, and
\* the stage chunk_pdf works with, and puts on every chunk, is the first tag in
\* that order with a keyword occurring anywhere in the filename, read
\* case-insensitively, and "general" when no keyword occurs, whatever stage the
\* caller passed in.
C15_StageByFirstMatch ==
    /\ [k \in 1..Len(stage_patterns) |-> stage_patterns[k].stage]
         = <<"celebration", "connection", "spark", "payOff", "spiral">>
    /\ cp_pc # "idle" =>
          /\ cp_metadata.stage = FirstTagIn(cp_filename)
          /\ \A k \in 1..Len(cp_chunks) :
                cp_chunks[k].metadata.stage = FirstTagIn(cp_filename)

\* the filename without its extension: what stands before its last dot (the
\* whole name when it has no dot after the first character)
Stem(filename) ==
    LET dots == { k \in 2..Len(filename) : filename[k] = "." } IN
    IF dots = {} THEN filename
    ELSE SubSeq(filename, 1, (CHOOSE k \in dots : \A l \in dots : l <= k) - 1)

\* C16: the workbookTitle chunk_pdf works with, and puts on every chunk, is the
\* filename with its extension removed and nothing else altered, for every
\* filename.
C16_TitleIsFilenameStem ==
    cp_pc # "idle" =>
        /\ cp_metadata.workbookTitle = Stem(cp_filename)
        /\ \A k \in 1..Len(cp_chunks) :
              cp_chunks[k].metadata.workbookTitle = Stem(cp_chunks[k].source_pdf)

\* C17: for every text x over null characters, spaces, newlines and other
\* characters, clean_chunk_text(clean_chunk_text(x)) = clean_chunk_text(x).
C17_CleanIdempotent == nz_pc = "twice" => nz_twice = nz_once

\* cleaned twice: a text that ends in a space, a null character and two spaces;
\* the first pass changed it, the second did not
C17_Witness ==
    /\ nz_pc = "twice"
    /\ nz_text = <<Run("a", 1), Run("SP", 1), Run("NUL", 1), Run("SP", 2)>>
    /\ nz_once = <<Run("a", 1)>>
    /\ nz_twice = <<Run("a", 1)>>

\* text t is the first characters of text x
PrefixOf(t, x) ==
    /\ Len(t) <= Len(x)
    /\ \A k \in 1..Len(t) :
          /\ t[k].ch = x[k].ch
          /\ IF k < Len(t) THEN t[k].n = x[k].n ELSE t[k].n <= x[k].n

\* text t is the first 32000 characters of text x, all of x when x is not longer
CutOf(t, x) ==
    /\ PrefixOf(t, x)
    /\ StrLen(t) = (IF StrLen(x) > 32000 THEN 32000 ELSE StrLen(x))

\* C18 (as claimed): every text generate_embedding submits to the embedding
\* service is non-blank, at most 32000 characters long and the prefix of that
\* length of the input text (the whole input when it is not longer); it is cut
\* before the first attempt and the same text goes out on every retry.
C18_SubmittedNonBlankPrefix ==
    \A k \in 1..Len(ge_sent) :
        /\ ~OnlyWhitespace(ge_sent[k])
        /\ StrLen(ge_sent[k]) <= 32000
        /\ CutOf(ge_sent[k], ge_arg)
        /\ ge_sent[k] = ge_sent[1]

\* C18 (amended): every text generate_embedding submits to the embedding service
\* is at most 32000 characters long and is the prefix of that length of a
\* non-blank input text (the whole input when it is not longer); it is cut before
\* the first attempt, after the blank test, and the same text goes out on every
\* retry. The submitted text itself is blank when the first 32000 characters of
\* the input are whitespace.
C18_SubmittedPrefixOfNonBlank ==
    \A k \in 1..Len(ge_sent) :
        /\ ~OnlyWhitespace(ge_arg)
        /\ StrLen(ge_sent[k]) <= 32000
        /\ CutOf(ge_sent[k], ge_arg)
        /\ ge_sent[k] = ge_sent[1]

\* a text of 32000 spaces and a letter was submitted twice, cut to its 32000
\* spaces, the first request having been answered by a rate-limit error
C18_Witness ==
    /\ ge_arg = <<Run("SP", 32000), Run("a", 1)>>
    /\ Len(ge_sent) = 2
    /\ ge_sent[1] = <<Run("SP", 32000)>>
    /\ ge_sent[2] = <<Run("SP", 32000)>>
    /\ ge_resps[1] = "rate_limit"

\* the fields of a chunk that chunk_pdf set
Carried == {"content", "metadata", "chunk_index", "source_pdf"}

\* chunk c has the fields of chunk b with the values they have in b, and besides
\* them at most an "embedding"
SameButEmbedding(c, b) ==
    /\ DOMAIN b \subseteq DOMAIN c
    /\ DOMAIN c \subseteq DOMAIN b \cup {"embedding"}
    /\ \A f \in (DOMAIN b) \ {"embedding"} : c[f] = b[f]

\* C19: at every point of a batch_embed call, and at its return, the list has the
\* chunks it was called with, as many and in the same order, each with its
\* content, metadata, chunk_index and source_pdf as passed; nothing but
\* "embedding" is added, whether the window call succeeds, fails and the
\* individual call returns, or fails and the individual call raises.
C19_OnlyEmbeddingAdded ==
    be_pc # "idle" =>
        /\ Len(chunks) = Len(be_input)
        /\ \A p \in 1..Len(be_input) :
              /\ Carried \subseteq DOMAIN be_input[p]
              /\ SameButEmbedding(chunks[p], be_input[p])

\* batch_embed has returned a list of three chunks of different contents: the
\* first window was embedded by the window call, in the second the individual
\* call returned for one chunk and raised for the other
C19_Witness ==
    /\ be_pc = "done"
    /\ Len(chunks) = 3
    /\ batch_size = 1
    /\ chunks[1].content # chunks[2].content
    /\ be_windows[1][2] = "ok"
    /\ \E k \in 1..Len(be_single) : be_single[k][2] = "returned"
    /\ \E k \in 1..Len(be_single) : be_single[k][2] = "raised"
    /\ \A p \in 1..3 : HasEmbedding(chunks[p]) /\ chunks[p].chunk_index = p - 1

\* the filename contains "workbook", read case-insensitively
NamedWorkbook(filename) ==
    LET folded == Lower(filename) IN
    \E k \in 1..(Len(filename) - 7) :
        SubSeq(folded, k, k + 7) = <<"w", "o", "r", "k", "b", "o", "o", "k">>

RECURSIVE RawLength(_)
\* the characters of all the pages together, as extracted
RawLength(pages) ==
    IF pages = <<>> THEN 0 ELSE StrLen(Head(pages)) + RawLength(Tail(pages))

\* the mean length of the pages is below 1000
LowContent(pages) == RawLength(pages) < 1000 * Len(pages)

\* the target size of a mode
SizeOf(mode) == IF mode = "workbook" THEN 500 ELSE 2000

\* C20: for a document with pages, chunk_pdf has picked the mode when the page
\* loop starts, with no chunk emitted yet, and keeps it over every page; the mode
\* is workbook (size 500, overlap 50) exactly when the filename contains
\* "workbook" case-insensitively or the mean raw length of all the pages is below
\* 1000, and book (size 2000, overlap 200) otherwise; no chunk is longer than the
\* size of the mode; 500 < 2000 and 50 < 200.
C20_ModeOncePerDocument ==
    /\ [](Splitter("workbook") = [chunk_size |-> 500, chunk_overlap |-> 50])
    /\ [](Splitter("book") = [chunk_size |-> 2000, chunk_overlap |-> 200])
    /\ []((cp_pc \in {"pages", "returned"} /\ text_by_page # <<>>) =>
             /\ cp_mode \in {"workbook", "book"}
             /\ cp_mode = "workbook" <=>
                   (NamedWorkbook(cp_filename) \/ LowContent(text_by_page))
             /\ \A k \in 1..Len(cp_chunks) :
                   StrLen(cp_chunks[k].content) <= SizeOf(cp_mode))
    /\ []((cp_pc = "pages" /\ page_num = 1) => cp_chunks = <<>>)
    /\ [][cp_pc = "pages" => cp_mode' = cp_mode]_vars

\* a document not named workbook, of a page of 1999 characters and an empty page
\* (mean 999.5), was chunked in workbook mode into one chunk of 500 characters
C20_Witness ==
    /\ cp_pc = "returned"
    /\ ~NamedWorkbook(cp_filename)
    /\ text_by_page = << <<Run("a", 1999)>>, <<>> >>
    /\ cp_mode = "workbook"
    /\ Len(cp_chunks) = 1
    /\ cp_chunks[1].content = <<Run("a", 500)>>

\* C21: every chunk chunk_pdf emits is between 500 and 1000 tokens long at 4
\* characters per token: 2000 <= len(content) <= 4000.
C21_ChunkBetween2000And4000 ==
    \A k \in 1..Len(cp_chunks) :
        /\ 2000 <= StrLen(cp_chunks[k].content)
        /\ StrLen(cp_chunks[k].content) <= 4000

\* the number of bulk inserts issued before the q-th insert call
BulksBefore(q) == Cardinality({r \in 1..(q - 1) : inserts[r].kind = "bulk"})

\* ceil(n / b)
CeilDiv(n, b) == (n + b - 1) \div b

\* the q-th insert call is the bulk insert of the next batch in list order, and
\* comes first, after a successful bulk insert, or after the individual insert
\* of the last record of the batch before
BulkInOrder(q) ==
    LET e == inserts[q] IN
    /\ e.at = BulksBefore(q) * UploadBatchSize
    /\ e.n = Min(UploadBatchSize, Len(chunks) - e.at)
    /\ e.n >= 1
    /\ q > 1 =>
        LET d == inserts[q - 1] IN
        \/ d.kind = "bulk" /\ d.ok
        \/ d.kind = "single" /\ d.at = e.at - 1

\* the q-th insert call is an individual insert that follows the failed bulk
\* insert of its batch (first record) or the individual insert, failed or not,
\* of the record before it in the same batch
SingleInOrder(q) ==
    LET e == inserts[q] IN
    /\ q > 1
    /\ e.n = 1
    /\ LET d == inserts[q - 1] IN
       \/ d.kind = "bulk" /\ ~d.ok /\ e.at = d.at
       \/ d.kind = "single" /\ e.at = d.at + 1 /\ e.at % UploadBatchSize # 0

\* C22: upload_chunks issues exactly one bulk insert per batch of at most
\* UploadBatchSize consecutive records, in list order; individual inserts are
\* issued only for the records of a batch whose bulk insert failed, each once,
\* in order, before the next bulk insert, whether or not an earlier individual
\* insert of the batch failed; at the end every batch has had its bulk insert
\* and no retry loop is left unfinished.
C22_InsertOrder ==
    /\ \A q \in 1..Len(inserts) :
        IF inserts[q].kind = "bulk" THEN BulkInOrder(q) ELSE SingleInOrder(q)
    /\ UploadOver =>
        /\ BulksBefore(Len(inserts) + 1) = CeilDiv(Len(chunks), UploadBatchSize)
        /\ inserts # <<>> =>
            LET d == inserts[Len(inserts)] IN
            \/ d.kind = "bulk" /\ d.ok
            \/ d.kind = "single" /\ d.at = Len(chunks) - 1

\* an upload is over in which an individual insert failed, the next record of
\* the batch was inserted after it, and a later batch had its bulk insert
C22_Witness ==
    /\ UploadOver
    /\ \E q \in 1..Len(inserts) :
        /\ inserts[q].kind = "single" /\ ~inserts[q].ok
        /\ q + 1 < Len(inserts)
        /\ inserts[q + 1].kind = "single"
        /\ inserts[q + 2].kind = "bulk"

\* the answers to the window calls whose window holds position p
WindowAnswers(p) ==
    {be_windows[k][2] : k \in {k \in 1..Len(be_windows) :
        /\ be_windows[k][1] < p
        /\ p <= be_windows[k][1] + batch_size}}

\* the window of position p has had its call, and the call failed
WindowFailed(p) == WindowAnswers(p) # {} /\ "ok" \notin WindowAnswers(p)

\* the individual generate_embedding call for position p raised
IndividualRaised(p) == \E s \in 1..Len(be_single) : be_single[s] = <<p, "raised">>

\* C23: in batch_embed individual calls are made only for chunks of windows
\* whose batch call failed; a chunk whose window call succeeded ends with the
\* vector the service returned for its content; a chunk ends with the all-zero
\* vector only if its window call failed and its content is blank or its
\* individual call raised.
C23_ZeroOnlyAfterFailures ==
    /\ \A s \in 1..Len(be_single) : WindowFailed(be_single[s][1])
    /\ be_pc \in {"fallback", "embedding"} => WindowFailed(be_i + be_j + 1)
    /\ be_pc = "done" =>
        \A p \in 1..Len(chunks) :
            /\ WindowAnswers(p) = {"ok"} =>
                   chunks[p].embedding = ServiceVector(chunks[p].content)
            /\ chunks[p].embedding = ZeroVector =>
                   /\ WindowFailed(p)
                   /\ OnlyWhitespace(chunks[p].content) \/ IndividualRaised(p)

\* batch_embed has returned a list in which one window was answered and one
\* failed, and of the failed window's chunks one, not blank, has the zero vector
\* and another the vector of its individual call
C23_Witness ==
    /\ be_pc = "done"
    /\ \E p, q, r \in 1..Len(chunks) :
        /\ WindowFailed(p) /\ chunks[p].embedding = ZeroVector
        /\ ~OnlyWhitespace(chunks[p].content)
        /\ WindowFailed(q) /\ chunks[q].embedding = ServiceVector(chunks[q].content)
        /\ WindowAnswers(r) = {"ok"}

\* how many successful insert calls held the record at position p
TimesStored(p) ==
    Cardinality({q \in 1..Len(inserts) :
        /\ inserts[q].ok
        /\ inserts[q].at < p
        /\ p <= inserts[q].at + inserts[q].n})

\* the positions whose record the store accepted
Accepted == {p \in 1..Len(chunks) : TimesStored(p) = 1}

\* the records the store holds are those of the accepted positions
StoredAreAccepted ==
    /\ \A k \in 1..Len(stored) : \E p \in Accepted : stored[k] = Record(chunks[p])
    /\ \A p \in Accepted : \E k \in 1..Len(stored) : stored[k] = Record(chunks[p])

\* C24: with insert calls that store all their records or none, once
\* upload_chunks has returned or raised the aggregate error every input record
\* has been stored at most once, success_count is the number of records the
\* store accepted, and no record of a successful bulk insert has had an
\* individual insert.
C24_StoredAtMostOnce ==
    UploadOver =>
        /\ \A p \in 1..Len(chunks) : TimesStored(p) <= 1
        /\ success_count = Cardinality(Accepted)
        /\ success_count = Len(stored)
        /\ StoredAreAccepted
        /\ \A q, r \in 1..Len(inserts) :
            (/\ inserts[q].kind = "bulk" /\ inserts[q].ok
             /\ inserts[r].kind = "single") =>
                ~(inserts[q].at <= inserts[r].at
                    /\ inserts[r].at < inserts[q].at + inserts[q].n)

\* an upload is over in which one batch was stored by its bulk insert and, of
\* another whose bulk insert failed, one record was stored individually and one
\* was not stored at all
C24_Witness ==
    /\ UploadOver
    /\ \E q \in 1..Len(inserts) : inserts[q].kind = "bulk" /\ inserts[q].ok
    /\ \E q \in 1..Len(inserts) : inserts[q].kind = "single" /\ inserts[q].ok
    /\ \E p \in 1..Len(chunks) : TimesStored(p) = 0

\* C25: the trailing zero-vector return of generate_embedding is unreachable:
\* for non-blank text and every max_retries, what generate_embedding returns is
\* the vector of a successful service call, never the all-zero vector.
C25_TrailingReturnUnreachable ==
    (ge_pc = "returned" /\ ~OnlyWhitespace(ge_arg)) =>
        /\ ge_resps # <<>>
        /\ ge_resps[Len(ge_resps)] = "ok"
        /\ ge_result = ServiceVector(ge_sent[Len(ge_sent)])
        /\ ~ge_result.zero

\* C26: within one run of main no two chunk records collected for upload
\* share both source_pdf and chunk_index.
C26_SourceAndIndexUnique ==
    \A k, l \in 1..Len(all_chunks) :
        (/\ all_chunks[k].source_pdf = all_chunks[l].source_pdf
         /\ all_chunks[k].chunk_index = all_chunks[l].chunk_index) => k = l

\* the records collected so far that share source_pdf and chunk_index with the
\* k-th one, itself included
SamePair(k) ==
    {l \in 1..Len(all_chunks) :
        /\ all_chunks[l].source_pdf = all_chunks[k].source_pdf
        /\ all_chunks[l].chunk_index = all_chunks[k].chunk_index}

\* the documents of the run whose filename is name
NamedAs(name) == {d \in 1..Len(pdf_files) : pdf_files[d].name = name}

\* C26 as amended: within one run of main no more collected chunk records share
\* both source_pdf and chunk_index than the run has documents of that filename;
\* the pair identifies a record uniquely among documents of distinct filenames.
C26_UniquePerFilename ==
    \A k \in 1..Len(all_chunks) :
        Cardinality(SamePair(k)) <= Cardinality(NamedAs(all_chunks[k].source_pdf))

\* a run over two documents of different filenames is over; both contributed a
\* chunk of index 0 and one of them a further chunk
C26_Witness ==
    /\ doc > Len(pdf_files)
    /\ Len(pdf_files) = 2
    /\ pdf_files[1].name # pdf_files[2].name
    /\ \E k, l, m \in 1..Len(all_chunks) :
        /\ all_chunks[k].chunk_index = 0 /\ all_chunks[l].chunk_index = 0
        /\ all_chunks[k].source_pdf # all_chunks[l].source_pdf
        /\ all_chunks[m].chunk_index = 1

\* the positions generate_embedding has been called for in the fallback loop,
\* the call in progress included
IndividualCalls ==
    Len(be_single) + (IF be_pc = "embedding" THEN 1 ELSE 0)

\* the counts of C27 in one state: no more window calls than windows, and all of
\* them once batch_embed has returned; one individual call per chunk at most,
\* of at most 3 requests; at most ceil(N/B) + 3N requests when every individual
\* call is counted as 3
CallsBounded ==
    LET N == Len(chunks)
        W == CeilDiv(N, batch_size) IN
    be_pc # "idle" =>
        /\ Len(be_windows) <= W
        /\ be_pc = "done" => Len(be_windows) = W
        /\ \A s, t \in 1..Len(be_single) : be_single[s][1] = be_single[t][1] => s = t
        /\ be_pc = "embedding" =>
            /\ Len(ge_sent) <= 3
            /\ \A s \in 1..Len(be_single) : be_single[s][1] # be_i + be_j + 1
        /\ IndividualCalls <= N
        /\ Len(be_windows) + 3 * IndividualCalls <= W + 3 * N

\* C27: batch_embed terminates for every list of N chunks and every batch size
\* B >= 1 whatever the service answers; it makes exactly ceil(N/B) window calls
\* and, for each chunk of a failed window, one generate_embedding call of at
\* most 3 requests, hence at most ceil(N/B) + 3N requests in all.
C27_TerminatesWithinBudget ==
    /\ []CallsBounded
    /\ (be_pc # "idle") ~> (be_pc = "done")

\* batch_embed has returned after every window call failed on the rate limit or
\* otherwise and every chunk had its individual call
C27_Witness ==
    /\ be_pc = "done"
    /\ Len(chunks) = MaxChunks
    /\ batch_size = 2
    /\ Len(be_windows) = CeilDiv(Len(chunks), batch_size)
    /\ \A k \in 1..Len(be_windows) : be_windows[k][2] \in {"rate_limit", "error"}
    /\ Len(be_single) = Len(chunks)

====
